---------------------------- MODULE Spec2Model ----------------------------
(***************************************************************************)
(* Lenovo Yoga Slim 7x embedded-controller driver                          *)
(* (drivers/platform/arm64/lenovo-yoga-slim7x.c).                          *)
(*                                                                         *)
(* The model has three kinds of execution context:                         *)
(*   - the driver core, which runs probe and remove and the devres unwind  *)
(*     that follows a failed probe or a remove;                            *)
(*   - the power-management core, which runs the suspend and resume        *)
(*     callbacks of a bound device;                                        *)
(*   - the threaded interrupt handler yoga_slim7x_ec_irq.                  *)
(* Every SMBus transfer is one atomic step (the adapter serialises         *)
(* transfers); everything between two transfers of one function can be     *)
(* interleaved with the other contexts.  The bus trace records every       *)
(* transfer with the operation that issued it and whether that operation   *)
(* held ec->lock.                                                          *)
(***************************************************************************)
EXTENDS Integers, Sequences, FiniteSets

(* ------------------------------ registers ------------------------------ *)
EC_IRQ_REASON_REG == 5
EC_SUSPEND_RESUME_REG == 35
EC_IRQ_ENABLE_REG == 53

EC_NOTIFY_SUSPEND_ENTER == 1
EC_NOTIFY_SUSPEND_EXIT == 0
EC_NOTIFY_SCREEN_OFF == 3
EC_NOTIFY_SCREEN_ON == 4

EC_IRQ_MICMUTE_BUTTON == 4
EC_IRQ_FAN1_STATUS_CHANGE == 48
EC_IRQ_THERMISTOR_1_TEMP_THRESHOLD_CROSS == 54
EC_IRQ_RECOVERED_FROM_RESET == 61
EC_IRQ_LENOVO_SUPPORT_KEY == 144

ENOMEM == 12

(* ------------------------------- bounds -------------------------------- *)
\* Number of operations (probe, remove, suspend, resume, dispatch) one
\* behaviour starts.
MaxOps == 3

\* Errors a bus transfer can return (-EIO, -ENXIO) and errors a registration
\* can return (-EBUSY, -EINVAL).
BusErrors == {-5, -6}
RegErrors == {-16, -22}

\* Bytes the reason register is read as: the micmute code, two of the
\* documented codes the switch has no case for (the other ones take the same
\* default branch), and a byte no define names.
ReasonBytes ==
  { EC_IRQ_MICMUTE_BUTTON, EC_IRQ_FAN1_STATUS_CHANGE,
    EC_IRQ_LENOVO_SUPPORT_KEY, 0 }

\* Interrupt-handler contexts: an interrupt is serviced by the first free one.
\* The interrupt core runs one invocation per line at a time; a second context
\* is allowed here so that ec->lock is contended.
IrqThreads == {"irq1", "irq2"}
Rank(t) == IF t = "irq1" THEN 1 ELSE 2

NoEc == [alloc |-> FALSE]
\* The value of an int local or return value that is not assigned yet: outside
\* the results of every call (a byte 0..255 or a negative errno, or
\* IRQ_HANDLED).
NoVal == 256

VARIABLES
  lcPc,       \* driver core: position in probe / remove / devres unwind
  probeRet,   \* return value of the current or last probe
  probeLog,   \* steps the current or last probe attempted, with results
  removeLog,  \* results of the bus writes the current or last remove issued
  lcId,       \* operation id of the current or last probe / remove
  ec,         \* struct yoga_slim7x_ec (devm_kzalloc'd), or NoEc
  irqArmed,   \* the handler is registered with the interrupt core
  ecRegs,     \* the EC's registers as last successfully written
  bus,        \* every SMBus transfer, in bus order
  nOps,       \* operations started so far
  irqPc, irqVal, irqRet, irqId, irqEvents, irqLog,  \* per handler context
  events,     \* everything the input core received, in order
  pmPc,       \* PM core: position in the running callback
  pmKind,     \* the callback that is running: "suspend", "resume" or "none"
  pmRet,      \* its return value
  pmId,       \* its operation id
  pmSuspended \* the PM core has this device suspended

lcVars == <<lcPc, probeRet, probeLog, removeLog, lcId>>
devVars == <<ec, irqArmed>>
irqVars == <<irqPc, irqVal, irqRet, irqId, irqEvents, irqLog>>
pmVars == <<pmPc, pmKind, pmRet, pmId, pmSuspended>>
vars == <<lcVars, devVars, ecRegs, bus, nOps, irqVars, events, pmVars>>

(* ------------------------------- the bus -------------------------------- *)
\* Who holds ec->lock: "uninit" before mutex_init, "free", or a context.
LockHeldBy(who) == ec.alloc /\ ec.lock = who

\* One SMBus transfer issued by function fn of operation id, running in
\* context who.
Transfer(id, who, fn, op, reg, val, res) ==
  [id |-> id, by |-> fn, op |-> op, reg |-> reg, val |-> val, res |-> res,
   held |-> LockHeldBy(who)]

\* i2c_smbus_write_byte_data: the EC takes the byte iff the transfer succeeds.
RegsAfterWrite(reg, val, res) ==
  IF res = 0 THEN [ecRegs EXCEPT ![reg] = val] ELSE ecRegs

Init ==
  /\ lcPc = "unbound"
  /\ probeRet = NoVal
  /\ probeLog = <<>>
  /\ removeLog = <<>>
  /\ lcId = 0
  /\ ec = NoEc
  /\ irqArmed = FALSE
  /\ ecRegs = [r \in {EC_SUSPEND_RESUME_REG, EC_IRQ_ENABLE_REG} |->
                 IF r = EC_IRQ_ENABLE_REG THEN 0 ELSE EC_NOTIFY_SCREEN_ON]
  /\ bus = <<>>
  /\ nOps = 0
  /\ irqPc = [t \in IrqThreads |-> "idle"]
  /\ irqVal = [t \in IrqThreads |-> NoVal]
  /\ irqRet = [t \in IrqThreads |-> NoVal]
  /\ irqId = [t \in IrqThreads |-> 0]
  /\ irqEvents = [t \in IrqThreads |-> <<>>]
  /\ irqLog = [t \in IrqThreads |-> <<>>]
  /\ events = <<>>
  /\ pmPc = "idle"
  /\ pmKind = "none"
  /\ pmRet = NoVal
  /\ pmId = 0
  /\ pmSuspended = FALSE


(* ------------------------- yoga_slim7x_ec_probe ------------------------- *)
\* Mutation: the error is logged and lost.
dev_err_probe_lost(ret) == 0

\* dev_err_probe logs and hands back the error it was given.
dev_err_probe(ret) == ret

\* Mutation: the sign of the test is wrong.
ProbeFailedPositive(ret) == ret > 0

\* The "if (ret < 0)" tests after the three fallible calls of probe.
ProbeFailed(ret) == ret < 0

\* Mutation: interrupts are enabled at the EC before the handler is requested.
ProbeAfterEnableEarly(pc) ==
  CASE pc = "p_kzalloc" -> "p_init"
    [] pc = "p_init" -> "p_ialloc"
    [] pc = "p_ialloc" -> "p_ireg"
    [] pc = "p_ireg" -> "p_enable"
    [] pc = "p_enable" -> "p_irq"
    [] pc = "p_irq" -> "bound"

\* The statement order of probe: where control goes after a step succeeded
\* ("bound" is "return 0").
ProbeAfter(pc) ==
  CASE pc = "p_kzalloc" -> "p_init"
    [] pc = "p_init" -> "p_ialloc"
    [] pc = "p_ialloc" -> "p_ireg"
    [] pc = "p_ireg" -> "p_irq"
    [] pc = "p_irq" -> "p_enable"
    [] pc = "p_enable" -> "bound"

Logged(step, res) == Append(probeLog, [step |-> step, res |-> res])

\* The driver core calls probe on an unbound device.
ProbeStart ==
  /\ lcPc = "unbound"
  /\ nOps < MaxOps
  /\ nOps' = nOps + 1
  /\ lcId' = nOps + 1
  /\ lcPc' = "p_kzalloc"
  /\ probeRet' = NoVal
  /\ probeLog' = <<>>
  /\ removeLog' = <<>>
  /\ UNCHANGED <<devVars, ecRegs, bus, irqVars, events, pmVars>>

\* ec = devm_kzalloc(...); if (!ec) return -ENOMEM;
ProbeKzalloc ==
  /\ lcPc = "p_kzalloc"
  /\ \E ok \in BOOLEAN :
       IF ok
         THEN /\ ec' = [alloc |-> TRUE, client |-> FALSE, idev |-> "NULL",
                        keybit |-> {}, lock |-> "uninit"]
              /\ probeLog' = Logged("kzalloc", 0)
              /\ lcPc' = ProbeAfter(lcPc)
              /\ UNCHANGED probeRet
         ELSE /\ probeLog' = Logged("kzalloc", -ENOMEM)
              /\ probeRet' = -ENOMEM
              /\ lcPc' = "p_fail"
              /\ UNCHANGED ec
  /\ UNCHANGED <<removeLog, lcId, irqArmed, ecRegs, bus, nOps, irqVars, events,
                 pmVars>>

\* mutex_init(&ec->lock); ec->client = client;
ProbeInit ==
  /\ lcPc = "p_init"
  /\ ec' = [ec EXCEPT !.lock = "free", !.client = TRUE]
  /\ lcPc' = ProbeAfter(lcPc)
  /\ UNCHANGED <<probeRet, probeLog, removeLog, lcId, irqArmed, ecRegs, bus,
                 nOps, irqVars, events, pmVars>>

\* ec->idev = devm_input_allocate_device(dev); if (!ec->idev) return -ENOMEM;
\* then name, phys and input_set_capability(EV_KEY, KEY_MICMUTE).
ProbeInputAllocate ==
  /\ lcPc = "p_ialloc"
  /\ \E ok \in BOOLEAN :
       IF ok
         THEN /\ ec' = [ec EXCEPT !.idev = "allocated",
                                  !.keybit = {"KEY_MICMUTE"}]
              /\ probeLog' = Logged("input_allocate", 0)
              /\ lcPc' = ProbeAfter(lcPc)
              /\ UNCHANGED probeRet
         ELSE /\ probeLog' = Logged("input_allocate", -ENOMEM)
              /\ probeRet' = -ENOMEM
              /\ lcPc' = "p_fail"
              /\ UNCHANGED ec
  /\ UNCHANGED <<removeLog, lcId, irqArmed, ecRegs, bus, nOps, irqVars, events,
                 pmVars>>

\* ret = input_register_device(ec->idev); if (ret < 0) return dev_err_probe(..);
ProbeInputRegister ==
  /\ lcPc = "p_ireg"
  /\ \E ret \in {0} \cup RegErrors :
       /\ probeLog' = Logged("input_register", ret)
       /\ IF ProbeFailed(ret)
            THEN /\ probeRet' = dev_err_probe(ret)
                 /\ lcPc' = "p_fail"
                 /\ UNCHANGED ec
            ELSE /\ ec' = [ec EXCEPT !.idev = "registered"]
                 /\ lcPc' = ProbeAfter(lcPc)
                 /\ UNCHANGED probeRet
  /\ UNCHANGED <<removeLog, lcId, irqArmed, ecRegs, bus, nOps, irqVars, events,
                 pmVars>>

\* ret = devm_request_threaded_irq(.., yoga_slim7x_ec_irq, IRQF_ONESHOT, .., ec);
ProbeRequestIrq ==
  /\ lcPc = "p_irq"
  /\ \E ret \in {0} \cup RegErrors :
       /\ probeLog' = Logged("request_irq", ret)
       /\ IF ProbeFailed(ret)
            THEN /\ probeRet' = dev_err_probe(ret)
                 /\ lcPc' = "p_fail"
                 /\ UNCHANGED irqArmed
            ELSE /\ irqArmed' = TRUE
                 /\ lcPc' = ProbeAfter(lcPc)
                 /\ UNCHANGED probeRet
  /\ UNCHANGED <<removeLog, lcId, ec, ecRegs, bus, nOps, irqVars, events,
                 pmVars>>

\* ret = i2c_smbus_write_byte_data(client, EC_IRQ_ENABLE_REG, 0x01);
\* if (ret < 0) return dev_err_probe(..); return 0;
ProbeEnable ==
  /\ lcPc = "p_enable"
  /\ \E ret \in {0} \cup BusErrors :
       /\ bus' = Append(bus, Transfer(lcId, "core", "probe", "write",
                                      EC_IRQ_ENABLE_REG, 1, ret))
       /\ ecRegs' = RegsAfterWrite(EC_IRQ_ENABLE_REG, 1, ret)
       /\ probeLog' = Logged("irq_enable", ret)
       /\ IF ProbeFailed(ret)
            THEN /\ probeRet' = dev_err_probe(ret)
                 /\ lcPc' = "p_fail"
            ELSE /\ lcPc' = ProbeAfter(lcPc)
                 /\ probeRet' = IF lcPc' = "bound" THEN 0 ELSE probeRet
  /\ UNCHANGED <<removeLog, lcId, devVars, nOps, irqVars, events, pmVars>>

(* ------------------------ yoga_slim7x_ec_remove ------------------------- *)
\* The driver core unbinds a bound device; it holds the device lock, so no
\* suspend or resume callback is running.
RemoveStart ==
  /\ lcPc = "bound"
  /\ pmPc = "idle"
  /\ ~pmSuspended
  /\ nOps < MaxOps
  /\ nOps' = nOps + 1
  /\ lcId' = nOps + 1
  /\ lcPc' = "r_write"
  /\ removeLog' = <<>>
  /\ UNCHANGED <<probeRet, probeLog, devVars, ecRegs, bus, irqVars, events,
                 pmVars>>

\* Mutation: remove tries again until the write goes through.
RemoveAfterWriteRetry(ret) == IF ret < 0 THEN "r_write" ELSE "r_done"

\* Where remove goes after its write: a failure is logged and the function
\* ends either way.
RemoveAfterWrite(ret) == "r_done"

\* ret = i2c_smbus_write_byte_data(client, EC_IRQ_ENABLE_REG, 0x00);
\* if (ret < 0) dev_err(..);  -- remove returns void.
RemoveWrite ==
  /\ lcPc = "r_write"
  /\ \E ret \in {0} \cup BusErrors :
       /\ bus' = Append(bus, Transfer(lcId, "core", "remove", "write",
                                      EC_IRQ_ENABLE_REG, 0, ret))
       /\ ecRegs' = RegsAfterWrite(EC_IRQ_ENABLE_REG, 0, ret)
       /\ removeLog' = Append(removeLog, ret)
       /\ lcPc' = RemoveAfterWrite(ret)
  /\ UNCHANGED <<probeRet, probeLog, lcId, devVars, nOps, irqVars, events,
                 pmVars>>

(* ------------------------------- devres --------------------------------- *)
\* After a failed probe and after remove the driver core releases the
\* device-managed resources, newest first: the interrupt (free_irq waits for a
\* running handler), then the input device, then the ec allocation.
DevresFreeIrq ==
  /\ lcPc \in {"p_fail", "r_done"}
  /\ irqArmed' = FALSE
  /\ lcPc' = "devres"
  /\ UNCHANGED <<probeRet, probeLog, removeLog, lcId, ec, ecRegs, bus, nOps,
                 irqVars, events, pmVars>>

\* Mutation: the allocation is freed without waiting for the handler.
HandlersQuiescedUnchecked == TRUE

\* free_irq has returned: no handler invocation is running any more.
HandlersQuiesced == \A t \in IrqThreads : irqPc[t] = "idle"

DevresRelease ==
  /\ lcPc = "devres"
  /\ HandlersQuiesced
  /\ ec' = NoEc
  /\ lcPc' = "unbound"
  /\ UNCHANGED <<probeRet, probeLog, removeLog, lcId, irqArmed, ecRegs, bus,
                 nOps, irqVars, events, pmVars>>


(* -------------------------- yoga_slim7x_ec_irq -------------------------- *)
\* irqreturn_t value of a handler that serviced its interrupt.
IRQ_HANDLED == 1

Key(value) == [type |-> "EV_KEY", code |-> "KEY_MICMUTE", value |-> value]
Sync == [type |-> "EV_SYN", code |-> "SYN_REPORT", value |-> 0]

\* Mutation: the case reports the press and never the release.
MicmuteCallsPressOnly == <<Key(1), Sync>>

\* The calls of "case EC_IRQ_MICMUTE_BUTTON", in program order.
MicmuteCalls == <<Key(1), Sync, Key(0), Sync>>

\* Mutation: the Lenovo support key is given the micmute case as well.
SwitchCaseSupportKey(val) ==
  IF val \in {EC_IRQ_MICMUTE_BUTTON, EC_IRQ_LENOVO_SUPPORT_KEY}
    THEN "micmute" ELSE "default"

\* switch (val): the label control goes to.
SwitchCase(val) ==
  IF val = EC_IRQ_MICMUTE_BUTTON THEN "micmute" ELSE "default"

\* "if (val < 0)" after the read.
ReadFailed(val) == val < 0

\* Mutation: a failed read reports the interrupt as not handled (IRQ_NONE).
ReadFailedResultNone == IRQ_HANDLED - 1

\* What the "if (val < 0)" branch returns.
ReadFailedResult == IRQ_HANDLED

\* mutex_lock blocks until the mutex is free.
\* Mutation: mutex_lock never waits.
MutexAvailableUnlocked == TRUE

MutexAvailable == ec.alloc /\ ec.lock = "free"

\* The input core takes a key event only for a key the device declared
\* (input_set_capability); synchronisation events always pass.
Delivered(ev) == ev.type = "EV_SYN" \/ ev.code \in ec.keybit

\* The EC raises the interrupt line while IRQ_ENABLE is 1; the interrupt core
\* wakes a handler context if the handler is registered.
IrqFire(t) ==
  /\ irqPc[t] = "idle"
  /\ \A u \in IrqThreads : Rank(u) < Rank(t) => irqPc[u] # "idle"
  /\ irqArmed
  /\ ecRegs[EC_IRQ_ENABLE_REG] = 1
  /\ nOps < MaxOps
  /\ nOps' = nOps + 1
  /\ irqId' = [irqId EXCEPT ![t] = nOps + 1]
  /\ irqPc' = [irqPc EXCEPT ![t] = "lock"]
  /\ irqRet' = [irqRet EXCEPT ![t] = NoVal]
  /\ UNCHANGED <<lcVars, devVars, ecRegs, bus, irqVal, irqEvents, irqLog,
                 events, pmVars>>

\* guard(mutex)(&ec->lock);
IrqLock(t) ==
  /\ irqPc[t] = "lock"
  /\ MutexAvailable
  /\ ec' = [ec EXCEPT !.lock = t]
  /\ irqPc' = [irqPc EXCEPT ![t] = "read"]
  /\ UNCHANGED <<lcVars, irqArmed, ecRegs, bus, nOps, irqVal, irqRet, irqId,
                 irqEvents, irqLog, events, pmVars>>

\* val = i2c_smbus_read_byte_data(ec->client, EC_IRQ_REASON_REG);
\* if (val < 0) { dev_err(..); return IRQ_HANDLED; }  switch (val) ...
IrqRead(t) ==
  /\ irqPc[t] = "read"
  /\ \E val \in ReasonBytes \cup BusErrors :
       /\ bus' = Append(bus, Transfer(irqId[t], t, "irq", "read",
                                      EC_IRQ_REASON_REG, val, IF val < 0 THEN val ELSE 0))
       /\ irqVal' = [irqVal EXCEPT ![t] = val]
       /\ IF ReadFailed(val)
            THEN /\ irqLog' = [irqLog EXCEPT ![t] =
                                 Append(@, [level |-> "err", val |-> val])]
                 /\ irqRet' = [irqRet EXCEPT ![t] = ReadFailedResult]
                 /\ irqPc' = [irqPc EXCEPT ![t] = "unlock"]
            ELSE /\ irqPc' = [irqPc EXCEPT ![t] = SwitchCase(val)]
                 /\ UNCHANGED <<irqLog, irqRet>>
  /\ UNCHANGED <<lcVars, devVars, ecRegs, nOps, irqId, irqEvents, events,
                 pmVars>>

\* One call of the micmute case: input_report_key(.., 1), input_sync,
\* input_report_key(.., 0), input_sync; after the last one, break and
\* return IRQ_HANDLED.
IrqMicmute(t) ==
  /\ irqPc[t] = "micmute"
  /\ LET k == Len(irqEvents[t]) + 1
         ev == MicmuteCalls[k]
     IN /\ irqEvents' = [irqEvents EXCEPT ![t] = Append(@, ev)]
        /\ events' = IF Delivered(ev) THEN Append(events, ev) ELSE events
        /\ IF k = Len(MicmuteCalls)
             THEN /\ irqRet' = [irqRet EXCEPT ![t] = IRQ_HANDLED]
                  /\ irqPc' = [irqPc EXCEPT ![t] = "unlock"]
             ELSE UNCHANGED <<irqRet, irqPc>>
  /\ UNCHANGED <<lcVars, devVars, ecRegs, bus, nOps, irqVal, irqId, irqLog,
                 pmVars>>

\* Mutation: an unhandled reason is acknowledged by clearing the register.
IrqDefaultAck(t) ==
  /\ irqPc[t] = "default"
  /\ bus' = Append(bus, Transfer(irqId[t], t, "irq", "write",
                                 EC_IRQ_REASON_REG, 0, 0))
  /\ irqLog' = [irqLog EXCEPT ![t] =
                  Append(@, [level |-> "info", val |-> irqVal[t]])]
  /\ irqRet' = [irqRet EXCEPT ![t] = IRQ_HANDLED]
  /\ irqPc' = [irqPc EXCEPT ![t] = "unlock"]
  /\ UNCHANGED <<lcVars, devVars, ecRegs, nOps, irqVal, irqId, irqEvents,
                 events, pmVars>>

\* default: dev_info(dev, "Unhandled EC IRQ reason: %d\n", val);
\* return IRQ_HANDLED;
IrqDefault(t) ==
  /\ irqPc[t] = "default"
  /\ irqLog' = [irqLog EXCEPT ![t] =
                  Append(@, [level |-> "info", val |-> irqVal[t]])]
  /\ irqRet' = [irqRet EXCEPT ![t] = IRQ_HANDLED]
  /\ irqPc' = [irqPc EXCEPT ![t] = "unlock"]
  /\ UNCHANGED <<lcVars, devVars, ecRegs, bus, nOps, irqVal, irqId, irqEvents,
                 events, pmVars>>

\* Mutation: the early return after a failed read leaves the mutex locked.
LockAfterReturnLeakOnError(t) ==
  IF irqVal[t] < 0 THEN t ELSE "free"

\* Mutation: the micmute case leaves the function with the mutex locked.
LockAfterReturnLeakOnKey(t) ==
  IF irqVal[t] = EC_IRQ_MICMUTE_BUTTON THEN t ELSE "free"

\* ec->lock once context t has left the function: the guard unlocks on every
\* return.
LockAfterReturn(t) == "free"

\* Leaving the function runs the guard's cleanup: mutex_unlock(&ec->lock).
IrqUnlock(t) ==
  /\ irqPc[t] = "unlock"
  /\ ec' = [ec EXCEPT !.lock = LockAfterReturn(t)]
  /\ irqPc' = [irqPc EXCEPT ![t] = "idle"]
  /\ irqVal' = [irqVal EXCEPT ![t] = NoVal]
  /\ irqEvents' = [irqEvents EXCEPT ![t] = <<>>]
  /\ irqLog' = [irqLog EXCEPT ![t] = <<>>]
  /\ irqRet' = [irqRet EXCEPT ![t] = NoVal]
  /\ irqId' = [irqId EXCEPT ![t] = 0]
  /\ UNCHANGED <<lcVars, irqArmed, ecRegs, bus, nOps, events, pmVars>>

(* ------------- yoga_slim7x_ec_suspend / yoga_slim7x_ec_resume ----------- *)
\* The values each callback writes to EC_SUSPEND_RESUME_REG, in program order.
\* Mutation: suspend enters suspend before it turns the screen off.
SuspendWritesSwapped == <<EC_NOTIFY_SUSPEND_ENTER, EC_NOTIFY_SCREEN_OFF>>

SuspendWrites == <<EC_NOTIFY_SCREEN_OFF, EC_NOTIFY_SUSPEND_ENTER>>

\* Mutation: resume turns the screen on before it leaves suspend.
ResumeWritesSwapped == <<EC_NOTIFY_SCREEN_ON, EC_NOTIFY_SUSPEND_EXIT>>

ResumeWrites == <<EC_NOTIFY_SUSPEND_EXIT, EC_NOTIFY_SCREEN_ON>>

\* Mutation: suspend ignores the result of a write.
SuspendAbortsNever(ret) == FALSE

\* "if (ret) return ret;" after a write of suspend, of resume.
SuspendAborts(ret) == ret # 0
ResumeAborts(ret) == ret # 0

\* Mutation: a failed write ends the callback with success.
AbortResultZero(ret) == 0

\* What "return ret;" hands to the PM core after a failed write.
AbortResult(ret) == ret

\* The PM core calls the callbacks of a bound device, suspend when it is
\* active and resume when it is suspended, never while probe or remove runs.
PmStart(kind) ==
  /\ lcPc = "bound"
  /\ pmPc = "idle"
  /\ pmSuspended = (kind = "resume")
  /\ nOps < MaxOps
  /\ nOps' = nOps + 1
  /\ pmId' = nOps + 1
  /\ pmRet' = NoVal
  /\ pmKind' = kind
  /\ pmPc' = IF kind = "suspend" THEN "s_w1" ELSE "r_w1"
  /\ UNCHANGED <<lcVars, devVars, ecRegs, bus, irqVars, events, pmSuspended>>

SuspendStart == PmStart("suspend")
ResumeStart == PmStart("resume")

\* ret = i2c_smbus_write_byte_data(client, EC_SUSPEND_RESUME_REG, value);
\* if (ret) return ret;   -- and "return 0" after the second write.
PmWrite(kind, at, value, next) ==
  /\ pmPc = at
  /\ \E ret \in {0} \cup BusErrors :
       /\ bus' = Append(bus, Transfer(pmId, "pm", kind, "write",
                                      EC_SUSPEND_RESUME_REG, value, ret))
       /\ ecRegs' = RegsAfterWrite(EC_SUSPEND_RESUME_REG, value, ret)
       /\ IF (IF kind = "suspend" THEN SuspendAborts(ret)
                                  ELSE ResumeAborts(ret))
            THEN /\ pmRet' = AbortResult(ret)
                 /\ pmPc' = "ret"
            ELSE /\ pmRet' = IF next = "ret" THEN 0 ELSE pmRet
                 /\ pmPc' = next
  /\ UNCHANGED <<lcVars, devVars, nOps, irqVars, events, pmKind, pmId,
                 pmSuspended>>

SuspendFirst == PmWrite("suspend", "s_w1", SuspendWrites[1], "s_w2")
SuspendSecond == PmWrite("suspend", "s_w2", SuspendWrites[2], "ret")
ResumeFirst == PmWrite("resume", "r_w1", ResumeWrites[1], "r_w2")
ResumeSecond == PmWrite("resume", "r_w2", ResumeWrites[2], "ret")

\* The callback has returned pmRet to the PM core: a suspend that returned 0
\* leaves the device suspended, anything else leaves it active.
PmReturn ==
  /\ pmPc = "ret"
  /\ pmPc' = "idle"
  /\ pmSuspended' = (pmKind = "suspend" /\ pmRet = 0)
  /\ pmKind' = "none"
  /\ pmRet' = NoVal
  /\ pmId' = 0
  /\ UNCHANGED <<lcVars, devVars, ecRegs, bus, nOps, irqVars, events>>

(* ----------------------------- specification ---------------------------- *)
Probe ==
  \/ ProbeStart \/ ProbeKzalloc \/ ProbeInit \/ ProbeInputAllocate
  \/ ProbeInputRegister \/ ProbeRequestIrq \/ ProbeEnable

Remove == RemoveStart \/ RemoveWrite

Devres == DevresFreeIrq \/ DevresRelease

Dispatch(t) ==
  \/ IrqFire(t) \/ IrqLock(t) \/ IrqRead(t) \/ IrqMicmute(t) \/ IrqDefault(t)
  \/ IrqUnlock(t)

Power ==
  \/ SuspendStart \/ SuspendFirst \/ SuspendSecond
  \/ ResumeStart \/ ResumeFirst \/ ResumeSecond \/ PmReturn

Next == Probe \/ Remove \/ Devres \/ Power \/ (\E t \in IrqThreads : Dispatch(t))

Spec == Init /\ [][Next]_vars

\* Every bus call returns and every context keeps being scheduled: a step
\* of a handler invocation or of a PM callback that stays possible is taken,
\* and a handler waiting for the mutex gets it if it is free again and again.
Fairness ==
  /\ \A t \in IrqThreads :
       /\ SF_vars(IrqLock(t))
       /\ WF_vars(IrqRead(t) \/ IrqMicmute(t) \/ IrqDefault(t) \/ IrqUnlock(t))
  /\ WF_vars(SuspendFirst \/ SuspendSecond \/ ResumeFirst \/ ResumeSecond
               \/ PmReturn)

FairSpec == Spec /\ Fairness


(* -------------------------------- claims -------------------------------- *)
BusIdx == 1 .. Len(bus)
OpIds == 1 .. nOps

\* The transfers operation id issued, in bus order.
OpBus(id) == SelectSeq(bus, LAMBDA e : e.id = id)

IsPowerTransfer(e) == e.by \in {"suspend", "resume"}

\* C1: the two writes of one suspend (or of one resume) are adjacent in the
\* bus trace: no other transfer, in particular no dispatch read of
\* EC_IRQ_REASON_REG, lies between them.
C1_PowerWritesAdjacent ==
  \A i, j \in BusIdx :
    (i < j /\ IsPowerTransfer(bus[i]) /\ bus[i].id = bus[j].id) => j = i + 1

\* C2: every transfer on the bus was issued by an operation that held
\* ec->lock at that moment.
C2_TransfersHoldLock ==
  \A i \in BusIdx : bus[i].held

PressEvent == [type |-> "EV_KEY", code |-> "KEY_MICMUTE", value |-> 1]
ReleaseEvent == [type |-> "EV_KEY", code |-> "KEY_MICMUTE", value |-> 0]
SyncEvent == [type |-> "EV_SYN", code |-> "SYN_REPORT", value |-> 0]
MicmuteGroup == <<PressEvent, SyncEvent, ReleaseEvent, SyncEvent>>

IsPrefix(a, b) == Len(a) <= Len(b) /\ a = SubSeq(b, 1, Len(a))
Tail4(q) == SubSeq(q, Len(q) - 3, Len(q))

\* The handler context t has executed its return statement.
Returning(t) == irqPc[t] = "unlock"

\* The handler context t is past its read, so irqVal[t] is what it read.
HasRead(t) == irqPc[t] \in {"micmute", "default", "unlock"}

\* C3: a dispatch that read 0x04 emits press, sync, release, sync in that
\* order and nothing else: what it has emitted so far is always a prefix of
\* that group, and when it returns it has emitted the whole group, which is
\* also the last thing the input core received.
C3_MicmuteEmitsGroup ==
  \A t \in IrqThreads :
    (HasRead(t) /\ irqVal[t] = 4) =>
      /\ IsPrefix(irqEvents[t], MicmuteGroup)
      /\ Returning(t) =>
           /\ irqEvents[t] = MicmuteGroup
           /\ Len(events) >= 4
           /\ Tail4(events) = MicmuteGroup
           /\ irqLog[t] = <<>>

C3_Witness ==
  \E t \in IrqThreads : Returning(t) /\ irqVal[t] = EC_IRQ_MICMUTE_BUTTON

\* C4: a dispatch that read a byte other than 0x04 emits no input event and
\* no sync, and when it returns it has produced exactly one diagnostic
\* record, the "unhandled reason" one carrying the byte.
C4_OtherCodesEmitNothing ==
  \A t \in IrqThreads :
    (HasRead(t) /\ irqVal[t] \in 0 .. 255 /\ irqVal[t] # 4) =>
      /\ irqEvents[t] = <<>>
      /\ Returning(t) => irqLog[t] = <<[level |-> "info", val |-> irqVal[t]]>>

C4_Witness ==
  \E t \in IrqThreads :
    /\ Returning(t)
    /\ irqVal[t] = EC_IRQ_LENOVO_SUPPORT_KEY
    /\ \E u \in IrqThreads : irqPc[u] = "lock"

\* C5: a dispatch whose read failed has emitted no input event, has issued
\* exactly one transfer (the failed read: no retry), has logged the error and
\* returns IRQ_HANDLED.
C5_ReadFailureHandled ==
  \A t \in IrqThreads :
    (HasRead(t) /\ irqVal[t] < 0) =>
      /\ Returning(t)
      /\ irqEvents[t] = <<>>
      /\ irqRet[t] = IRQ_HANDLED
      /\ Len(OpBus(irqId[t])) = 1
      /\ OpBus(irqId[t])[1].op = "read"
      /\ OpBus(irqId[t])[1].reg = 5
      /\ irqLog[t] = <<[level |-> "err", val |-> irqVal[t]]>>

C5_Witness ==
  \E t \in IrqThreads : Returning(t) /\ irqVal[t] = -6


PowerTransfers(kind, id) ==
  SelectSeq(bus, LAMBDA e : e.id = id /\ e.by = kind)

IsWrite(e, reg, val) == e.op = "write" /\ e.reg = reg /\ e.val = val

\* C6: the transfers of one suspend are write(0x23,0x03) and then, only if
\* that write succeeded, write(0x23,0x01); a suspend whose first write failed
\* is at its return with that error as its result and has issued nothing else.
C6_SuspendOrder ==
  /\ \A id \in OpIds :
       LET tr == PowerTransfers("suspend", id)
       IN /\ Len(tr) <= 2
          /\ Len(tr) >= 1 => IsWrite(tr[1], 35, 3)
          /\ Len(tr) = 2 => (IsWrite(tr[2], 35, 1) /\ tr[1].res = 0)
  /\ (pmKind = "suspend" /\ Len(OpBus(pmId)) >= 1 /\ OpBus(pmId)[1].res # 0) =>
       /\ pmPc = "ret"
       /\ pmRet = OpBus(pmId)[1].res
       /\ Len(OpBus(pmId)) = 1

C6_Witness ==
  /\ pmKind = "suspend"
  /\ pmPc = "ret"
  /\ Len(OpBus(pmId)) = 1
  /\ OpBus(pmId)[1].res = -5

\* C7: the transfers of one resume are write(0x23,0x00) and then, only if
\* that write succeeded, write(0x23,0x04); a resume whose first write failed
\* is at its return with that error as its result and has issued nothing else.
C7_ResumeOrder ==
  /\ \A id \in OpIds :
       LET tr == PowerTransfers("resume", id)
       IN /\ Len(tr) <= 2
          /\ Len(tr) >= 1 => IsWrite(tr[1], 35, 0)
          /\ Len(tr) = 2 => (IsWrite(tr[2], 35, 4) /\ tr[1].res = 0)
  /\ (pmKind = "resume" /\ Len(OpBus(pmId)) >= 1 /\ OpBus(pmId)[1].res # 0) =>
       /\ pmPc = "ret"
       /\ pmRet = OpBus(pmId)[1].res
       /\ Len(OpBus(pmId)) = 1

C7_Witness ==
  /\ pmKind = "resume"
  /\ pmPc = "ret"
  /\ Len(OpBus(pmId)) = 1
  /\ OpBus(pmId)[1].res = -6

ProbeRunning ==
  lcPc \in {"p_kzalloc", "p_init", "p_ialloc", "p_ireg", "p_irq", "p_enable"}

\* Probe has returned (and no later probe has started).
ProbeReturned == ~ProbeRunning /\ probeLog # <<>>

LastStep == probeLog[Len(probeLog)]

\* The last thing probe did was input_register_device, and it failed.
InputRegisterFailed ==
  /\ probeLog # <<>>
  /\ LastStep.step = "input_register"
  /\ LastStep.res < 0

\* C8: once input_register_device has failed, probe has returned that error,
\* the handler is not registered, the probe has issued no transfer (so no
\* IRQ_ENABLE write), and until the next probe nothing runs on the device: no
\* dispatch, no suspend or resume, no transfer at all; when the unwind is
\* over the ec allocation is gone.
C8_InputRegisterFailure ==
  InputRegisterFailed =>
    /\ lcPc \in {"p_fail", "devres", "unbound"}
    /\ probeRet = LastStep.res
    /\ ~irqArmed
    /\ \A i \in BusIdx : bus[i].id < lcId
    /\ \A t \in IrqThreads : irqPc[t] = "idle"
    /\ pmPc = "idle"
    /\ lcPc = "unbound" => ec = [alloc |-> FALSE]

C8_Witness == InputRegisterFailed /\ lcPc = "unbound" /\ probeRet = -22

\* A handler is registered, and the state it works on is complete.
HandlerReady ==
  /\ irqArmed
  /\ ec.alloc
  /\ ec.client
  /\ ec.lock # "uninit"
  /\ ec.idev = "registered"
  /\ "KEY_MICMUTE" \in ec.keybit

\* C9 as stated: whenever the EC has interrupts enabled, a handler with an
\* initialised lock and a registered input device is armed.
C9_EnabledImpliesReady ==
  ecRegs[53] = 1 => HandlerReady

EnableWrites ==
  {i \in BusIdx : IsWrite(bus[i], 53, 1) /\ bus[i].res = 0}

\* Since interrupts were last enabled, a remove failed to disable them.
DisableFailedSinceEnable ==
  \E j \in BusIdx :
    /\ bus[j].by = "remove"
    /\ bus[j].res # 0
    /\ \A i \in EnableWrites : i < j

\* C9 (amended): the IRQ_ENABLE write is the last step of probe, issued after
\* the four earlier steps succeeded; and whenever the EC has interrupts
\* enabled, a complete handler is armed, unless a remove has since failed to
\* disable them.
C9_EnableIsLastStep ==
  /\ \A i \in BusIdx :
       (bus[i].by = "probe" /\ bus[i].id = lcId) =>
         /\ ~ProbeRunning
         /\ IsWrite(bus[i], 53, 1)
         /\ Len(probeLog) = 5
         /\ \A k \in 1 .. 4 : probeLog[k].res = 0
  /\ ecRegs[53] = 1 => (HandlerReady \/ DisableFailedSinceEnable)

C9_Witness ==
  /\ ecRegs[53] = 1
  /\ HandlerReady
  /\ ~DisableFailedSinceEnable
  /\ \E t \in IrqThreads : irqPc[t] = "read"

AttachOrder ==
  <<"kzalloc", "input_allocate", "input_register", "request_irq", "irq_enable">>

\* C10: probe performs its steps in order and stops at the first failure; it
\* returns 0 iff all five steps succeeded, otherwise it returns the error of
\* the step that failed, and then no IRQ_ENABLE write of it has succeeded.
C10_AttachFailFast ==
  /\ Len(probeLog) <= 5
  /\ \A k \in 1 .. Len(probeLog) :
       /\ probeLog[k].step = AttachOrder[k]
       /\ k < Len(probeLog) => probeLog[k].res = 0
  /\ ProbeRunning => \A k \in 1 .. Len(probeLog) : probeLog[k].res = 0
  /\ ProbeReturned =>
       /\ (probeRet = 0) <=> (Len(probeLog) = 5 /\ LastStep.res = 0)
       /\ probeRet # 0 =>
            /\ probeRet < 0
            /\ probeRet = LastStep.res
            /\ \A i \in BusIdx :
                 (bus[i].by = "probe" /\ bus[i].id = lcId) => bus[i].res # 0

C10_Witness ==
  /\ ProbeReturned
  /\ probeRet = -6
  /\ Len(probeLog) = 5


\* A handler context holds ec->lock only between its lock and its unlock.
InsideLock(t) == irqPc[t] \in {"read", "micmute", "default", "unlock"}

\* C11: a handler context that is not inside the function (it has returned,
\* or has not locked yet) does not hold ec->lock, whichever path it returned
\* by; so when no invocation is inside, an initialised lock is free.
C11_LockReleasedOnReturn ==
  /\ \A t \in IrqThreads : ~InsideLock(t) => ~LockHeldBy(t)
  /\ (ec.alloc /\ ec.lock # "uninit" /\ \A t \in IrqThreads : ~InsideLock(t))
       => ec.lock = "free"

\* An invocation whose read failed has returned and the lock is free.
C11_Witness ==
  /\ \E i \in BusIdx : bus[i].by = "irq" /\ bus[i].res < 0
  /\ \A t \in IrqThreads : irqPc[t] = "idle"
  /\ ec.alloc
  /\ ec.lock = "free"


\* The running callback is at its return after its second write failed.
SecondWriteFailed ==
  /\ pmPc = "ret"
  /\ Len(OpBus(pmId)) = 2
  /\ OpBus(pmId)[2].res # 0

\* C12: a callback whose second write failed after the first succeeded
\* returns the second write's error; no callback ever issues a third
\* (compensating) write, so its first write is its only successful one and
\* the EC keeps the value of that first write.
C12_NoRollback ==
  /\ \A id \in OpIds : \A kind \in {"suspend", "resume"} :
       LET tr == PowerTransfers(kind, id)
       IN /\ Len(tr) <= 2
          /\ (Len(tr) = 2 /\ tr[2].res # 0) =>
               {i \in 1 .. Len(tr) : tr[i].res = 0} = {1}
  /\ SecondWriteFailed =>
       /\ pmRet = OpBus(pmId)[2].res
       /\ OpBus(pmId)[1].res = 0
       /\ OpBus(pmId)[1].val = (IF pmKind = "suspend" THEN 3 ELSE 0)
       /\ ecRegs[35] = OpBus(pmId)[1].val

C12_Witness == SecondWriteFailed /\ pmKind = "resume" /\ ecRegs[35] = 0


\* The power state the EC was last told: SuspendEnter leaves it suspended,
\* ScreenOn leaves it active, ScreenOff and SuspendExit are the steps between.
EcPower ==
  CASE ecRegs[35] = 1 -> "Suspended"
    [] ecRegs[35] = 4 -> "Active"
    [] OTHER -> "Intermediate"

\* C13: a callback returns 0 iff it issued two writes and both succeeded; a
\* suspend that returns 0 wrote 0x03 then 0x01 and leaves the EC suspended, a
\* resume that returns 0 wrote 0x00 then 0x04 and leaves the EC active; the
\* EC stays suspended for as long as the device is suspended.
C13_PowerSequence ==
  /\ pmPc = "ret" =>
       LET tr == OpBus(pmId)
           sus == pmKind = "suspend"
       IN /\ (pmRet = 0) <=>
               (Len(tr) = 2 /\ tr[1].res = 0 /\ tr[2].res = 0)
          /\ pmRet = 0 =>
               /\ IsWrite(tr[1], 35, IF sus THEN 3 ELSE 0)
               /\ IsWrite(tr[2], 35, IF sus THEN 1 ELSE 4)
               /\ EcPower = (IF sus THEN "Suspended" ELSE "Active")
  /\ (pmSuspended /\ pmPc = "idle") => EcPower = "Suspended"

\* A resume returns 0 (the suspend before it returned 0 as well).
C13_Witness ==
  /\ pmPc = "ret"
  /\ pmKind = "resume"
  /\ pmRet = 0
  /\ \E i \in BusIdx : IsWrite(bus[i], 35, 1) /\ bus[i].res = 0


RemoveTransfers(id) ==
  SelectSeq(bus, LAMBDA e : e.id = id /\ e.by = "remove")

\* C14: remove issues write(0x35,0x00) exactly once; once that write has
\* returned, with 0 or with an error, remove is over (it has no result to
\* return and writes nothing more) and the unwind proceeds.
C14_DetachCompletes ==
  /\ \A id \in OpIds :
       LET tr == RemoveTransfers(id)
       IN /\ Len(tr) <= 1
          /\ Len(tr) = 1 => IsWrite(tr[1], 53, 0)
  /\ lcPc = "r_write" => (removeLog = <<>> /\ RemoveTransfers(lcId) = <<>>)
  /\ removeLog # <<>> =>
       /\ lcPc \in {"r_done", "devres", "unbound"}
       /\ Len(removeLog) = 1
       /\ Len(RemoveTransfers(lcId)) = 1
       /\ RemoveTransfers(lcId)[1].res = removeLog[1]

\* A remove whose write failed has finished and the device is unbound.
C14_Witness == lcPc = "unbound" /\ removeLog = <<-5>>


\* The ec allocation has been released after a remove.
ReleasedAfterRemove == ~ec.alloc /\ removeLog # <<>>

\* C15: while the ec allocation is released, no handler invocation and no PM
\* callback is running or can start, and no transfer is added to the bus; an
\* invocation triggered before or during remove has returned by then.
C15_NoAccessAfterRelease ==
  /\ [](~ec.alloc =>
          /\ \A t \in IrqThreads : irqPc[t] = "idle"
          /\ pmPc = "idle"
          /\ ~irqArmed)
  /\ [][~ec.alloc => bus' = bus]_vars

\* The device was removed and released, and a handler invocation read the
\* reason register after remove's write.
C15_Witness ==
  /\ ReleasedAfterRemove
  /\ \E i, j \in BusIdx : i < j /\ bus[i].by = "remove" /\ bus[j].by = "irq"


IrqTransfers(id) == SelectSeq(bus, LAMBDA e : e.id = id /\ e.by = "irq")

\* A step of a handler invocation.
DispatchStep == irqPc' # irqPc

\* C16: the only transfer of a handler invocation is one read of register
\* 0x05; a step of an invocation changes neither the EC's registers, nor the
\* handler registration, nor any field of ec other than the lock, nor the
\* state of probe, remove, suspend or resume; it adds at most that read to
\* the bus.
C16_DispatchFrame ==
  /\ [](/\ \A i \in BusIdx :
            bus[i].by = "irq" => (bus[i].op = "read" /\ bus[i].reg = 5)
        /\ \A id \in OpIds : Len(IrqTransfers(id)) <= 1
        /\ \A t \in IrqThreads :
             HasRead(t) => Len(OpBus(irqId[t])) = 1)
  /\ [][DispatchStep =>
          /\ ecRegs' = ecRegs
          /\ irqArmed' = irqArmed
          /\ ec' = [ec EXCEPT !.lock = ec'.lock]
          /\ UNCHANGED <<lcVars, pmVars>>
          /\ \/ bus' = bus
             \/ /\ Len(bus') = Len(bus) + 1
                /\ SubSeq(bus', 1, Len(bus)) = bus
                /\ bus'[Len(bus')].op = "read"]_vars

\* An invocation returns while a suspend is between its two writes.
C16_Witness ==
  /\ pmPc = "s_w2"
  /\ \E t \in IrqThreads : Returning(t) /\ Len(OpBus(irqId[t])) = 1


\* A context waits in mutex_lock while the mutex belongs to no running
\* invocation.
LockOrphaned ==
  /\ \E t \in IrqThreads : irqPc[t] = "lock"
  /\ ~MutexAvailable
  /\ ~\E u \in IrqThreads :
        LockHeldBy(u) /\ irqPc[u] \in {"read", "micmute", "default", "unlock"}

\* C17: under fair scheduling every started handler invocation returns, with
\* IRQ_HANDLED, every started suspend and resume returns, and no invocation
\* waits for a mutex that nobody will release.
C17_EverySequenceCompletes ==
  /\ [](\A t \in IrqThreads : Returning(t) => irqRet[t] = IRQ_HANDLED)
  /\ []~LockOrphaned
  /\ \A t \in IrqThreads : (irqPc[t] # "idle") ~> (irqPc[t] = "idle")
  /\ (pmPc # "idle") ~> (pmPc = "idle")

\* One invocation waits for the mutex while another one holds it.
C17_Witness ==
  /\ \E t, u \in IrqThreads :
       irqPc[t] = "lock" /\ LockHeldBy(u) /\ irqPc[u] = "read"


\* No handler invocation is between its first and its last input call.
NoGroupInProgress == \A t \in IrqThreads : irqPc[t] # "micmute"

\* C18: the events the input core received are, in order, repetitions of
\* press, sync, release, sync: the i-th event is the one at position i of the
\* group, counted modulo 4; and while no invocation is inside its input calls
\* the stream ends with a complete group, so the key is released.
C18_EventStreamIsGroups ==
  /\ \A i \in 1 .. Len(events) : events[i] = MicmuteGroup[((i - 1) % 4) + 1]
  /\ NoGroupInProgress => Len(events) % 4 = 0
  /\ (\A t \in IrqThreads : irqPc[t] = "idle") =>
       (events = <<>> \/ events[Len(events) - 1] = ReleaseEvent)

\* One invocation has reported the press and its sync while a second one
\* waits for the mutex.
C18_Witness ==
  \E t, u \in IrqThreads :
    /\ irqPc[t] = "micmute"
    /\ Len(irqEvents[t]) = 2
    /\ irqPc[u] = "lock"

=============================================================================
